---- MODULE Spec2Model ----
(***************************************************************************)
(* A model of mozilla/bugstats: the code-freeze report (bugstats/cfw.py)   *)
(* and the regression report (bugstats/regrs.py).                          *)
(*                                                                         *)
(* Time: a timestamp is a number of ticks, TicksPerDay ticks to the day;   *)
(* a day d starts (midnight UTC) at tick d * TicksPerDay.  Day 0 is a      *)
(* Monday.  A date such as 2017-09-20 is a day number.                     *)
(* A Python value that may be None, or a dict key that may be missing, is  *)
(* a set with at most one element: None is {}, the value x is {x}.         *)
(***************************************************************************)
EXTENDS Integers, Sequences, FiniteSets, TLC

\* ------------------------------------------------------------------ bounds
MaxBugs == 2          \* bug ids a search can return
MaxRuns == 2          \* runs of the regression report, one after the other
MaxHist == 2          \* change groups of a history handed to regrs.py's history_handler
MaxDiffs == 2         \* file diffs of a patch handed to patch_analysis
MaxChanges == 1       \* changed-line pairs of a file diff
MaxAtts == 2          \* attachments of a bug handed to attachment_handler
MaxRows == 3          \* bug records handed to prepare
TicksPerDay == 2      \* resolution of timestamps within one day

None == {}
Some(x) == {x}
Get(o) == CHOOSE x \in o : TRUE

Range(s) == {s[i] : i \in 1..Len(s)}

BugIds == 1..MaxBugs

\* The key the bug tracker's JSON gives a bug in a comments reply: the id in
\* decimal digits.
IdStr(b) == ToString(b)

\* ------------------------------------------------------------ configuration
\* config.json is not part of the sources; one denylisted product and one
\* denylisted component stand for its two lists.
get_products_blacklist == {"Testing"}
get_components_blacklist == {"Untriaged"}

\* The 'cf_status_firefox<major>' field name of get_bugs, and the other
\* field names a history change can carry.
flag == "cf_status_firefox"
FieldNames == {flag, "cf_status_firefox_prev", "status"}

VARIABLES
    pc,            \* where get_bugs / send_email stands
    date,          \* get_bugs: the target date (a day)
    start_date,    \* get_bugs: what get_start_date / the range gave (None: no match)
    end_date,      \* get_bugs: the end of the window
    found,         \* the primary search's result: bug id -> [product, component]
    pendingBugs,   \* search results whose bug_handler call has not run yet
    data,          \* get_bugs: bug id -> bug record
    invalids,      \* get_bugs: the list history_handler appends to
    pendingSec,    \* <<kind, bug id>>: secondary handler calls that have not run yet
    history,       \* bug id -> the history the tracker served (None: not served)
    attachments,   \* bug id -> the attachments the tracker served (None: not served)
    hg,            \* revision -> the JSON hg.mozilla.org served (None: not served)
    pendingRev,    \* <<bug id, revision>>: handler_rev calls that have not run yet
    rows,          \* what get_bugs returns
    out,           \* what send_email did: "" (nothing yet), "report", "nodata"
    queries,       \* number of queries sent to the bug tracker so far
    raised,        \* an exception was raised in a handler and not yet seen by wait()
    \* the regression report (regrs.py)
    rpc,           \* where get_links stands: "idle" between two runs, "wait_history"
    treated,       \* get_links: the path of the treated-ids file, "" for none
    rdate,         \* get_links: the date the history is filtered by (None: no filter)
    rdata,         \* get_links: bug id -> the bug the search returned
    bugids,        \* get_links: what check_bugs returned
    pendingHist,   \* bug ids whose history_handler call has not run yet
    rhistory,      \* bug id -> the history the tracker served in this run
    hdata,         \* get_links: bug id -> regression or not
    links,         \* what get_links returned last: the bug ids, ascending
    file,          \* the treated-ids file: None when it does not exist, else its
                   \* 'treated' list (as a set: its order plays no part)
    reported,      \* bug ids returned so far by completed runs that used the file
    runs           \* completed runs of get_links

cfwvars == <<pc, date, start_date, end_date, found, pendingBugs, data, invalids,
             pendingSec, history, attachments, hg, pendingRev, rows, out, queries, raised>>

regrvars == <<rpc, treated, rdate, rdata, bugids, pendingHist, rhistory, hdata, links,
              file, reported, runs>>

vars == <<cfwvars, regrvars>>

\* ---------------------------------------------------------------- calendar
\* (ISO year, ISO week) of a day.  Day 0 is a Monday, so two days have the
\* same pair exactly when they lie in the same Monday-to-Sunday week.
isocalendar(d) == <<(d \div 7) \div 52, (d \div 7) % 52>>

\* An event of the calendar feed.
Event(hasSummary, marker, dt) == [summary |-> hasSummary, marker |-> marker, dt |-> dt]

\* dates = [ev['DTSTART'].dt for ev in cal.walk()
\*          if 'SUMMARY' in ev and 'Beta->Release' in ev['SUMMARY']]
RECURSIVE MarkerDates(_)
MarkerDates(cal) ==
    IF cal = <<>> THEN <<>>
    ELSE LET ev == Head(cal)
         IN  (IF ev.summary /\ ev.marker THEN <<ev.dt>> ELSE <<>>)
             \o MarkerDates(Tail(cal))

\* the for loop of get_start_date: the first date of the target's ISO year
\* and week; falling off the loop returns None.
RECURSIVE FirstSameWeek(_, _)
FirstSameWeek(dates, d) ==
    IF dates = <<>> THEN None
    ELSE IF isocalendar(Head(dates))[1] = isocalendar(d)[1]
            /\ isocalendar(Head(dates))[2] = isocalendar(d)[2]
         THEN Some(Head(dates))
         ELSE FirstSameWeek(Tail(dates), d)

get_start_date(d, cal) == FirstSameWeek(MarkerDates(cal), d)

\* ------------------------------------------------------------- bug_handler
\* The record bug_handler stores; 'land' is set, the keys the later handlers
\* add ('softvision', 'patches', 'landed_patches') are missing.
NewRecord(bug) ==
    [product |-> bug.product, component |-> bug.component,
     land |-> <<>>, softvision |-> None, patches |-> None,
     landed_patches |-> None]

Denylisted(bug) ==
    \/ bug.product \in get_products_blacklist
    \/ bug.component \in get_components_blacklist

\* bug_handler without its second early return (the component is not looked at)
bug_handler_data_product_only(id, bug, d) ==
    IF bug.product \in get_products_blacklist THEN d
    ELSE [b \in DOMAIN d \cup {id} |-> IF b = id THEN NewRecord(bug) ELSE d[b]]

\* data after bug_handler(bug, data)
bug_handler_data(id, bug, d) ==
    IF Denylisted(bug) THEN d
    ELSE [b \in DOMAIN d \cup {id} |-> IF b = id THEN NewRecord(bug) ELSE d[b]]

\* --------------------------------------------------------- history_handler
Change(f, removed, added) == [field_name |-> f, removed |-> removed, added |-> added]
Changes(when, who, changes) == [when |-> when, who |-> who, changes |-> changes]

\* SOFTVISION_PAT.search(who): some characters, then '@softvision'
SoftvisionAuthors == {"qa@softvision.ro"}
Authors == SoftvisionAuthors \cup {"dev@mozilla.com"}

\* One pass of the inner loop body: st = [softvision, valid] after `change`.
HistoryChange(d, when, who, change, st) ==
    LET sv == IF change.removed = "RESOLVED" /\ change.added = "VERIFIED"
                 /\ who \in SoftvisionAuthors
              THEN TRUE ELSE st.softvision
        v  == IF change.field_name = flag /\ change.added = "fixed"
              THEN (d * TicksPerDay <= when /\ when < (d + 1) * TicksPerDay)
              ELSE st.valid
    IN  [softvision |-> sv, valid |-> v]

RECURSIVE HistoryChanges(_, _, _, _, _)
HistoryChanges(d, when, who, changes, st) ==
    IF changes = <<>> THEN st
    ELSE HistoryChanges(d, when, who, Tail(changes),
                        HistoryChange(d, when, who, Head(changes), st))

\* The outer loop of history_handler over the change groups.
RECURSIVE HistoryScan(_, _, _)
HistoryScan(d, h, st) ==
    IF h = <<>> THEN st
    ELSE HistoryScan(d, Tail(h),
                     HistoryChanges(d, Head(h).when, Head(h).who, Head(h).changes, st))

history_handler_result(d, h) == HistoryScan(d, h, [softvision |-> FALSE, valid |-> FALSE])

\* ---------------------------------------------------------- patch_analysis
\* A changed-line pair of whatthepatch: (old line number or None, new line
\* number or None, text); the text plays no part.
AddPair == [old |-> None, new |-> Some(1)]
DelPair == [old |-> Some(1), new |-> None]
CtxPair == [old |-> Some(1), new |-> Some(1)]

\* A parsed diff: header is None or the header's new_path, a path being a
\* sequence of pieces of text; changes is the list of changed-line pairs
\* (empty when whatthepatch found none).
Diff(header, changes) == [header |-> header, changes |-> changes]

PATCH_INFO == [changes_size |-> 0, test_changes_size |-> 0,
               changes_add |-> 0, changes_del |-> 0]

\* new_path = h.new_path[2:] if h.new_path.startswith('b/') else h.new_path
StripPrefix(path) == IF path # <<>> /\ Head(path) = "b/" THEN Tail(path) ELSE path

term == {"ini", "list", "in", "py", "json", "manifest"}

\* _is_test: 'test' in path and not path.endswith(term)
is_test(path) ==
    /\ \E i \in 1..Len(path) : path[i] = "test"
    /\ ~(path # <<>> /\ path[Len(path)] \in term)

\* sum(counts[0]) and sum(counts[1]) of patch_analysis, one pair at a time
RECURSIVE CountAdd(_)
CountAdd(changes) ==
    IF changes = <<>> THEN 0
    ELSE (IF Head(changes).old = None /\ Head(changes).new # None THEN 1 ELSE 0)
         + CountAdd(Tail(changes))

RECURSIVE CountDel(_)
CountDel(changes) ==
    IF changes = <<>> THEN 0
    ELSE (IF Head(changes).new = None /\ Head(changes).old # None THEN 1 ELSE 0)
         + CountDel(Tail(changes))

\* `if diff.header and diff.changes`
DiffCounted(diff) == diff.header # None /\ diff.changes # <<>>

\* the loop body with the `else` lost: a test file's pairs go to both sizes
patch_analysis_diff_no_else(diff, info) ==
    IF ~DiffCounted(diff) THEN info
    ELSE LET new_path == StripPrefix(Get(diff.header))
             n == Len(diff.changes)
         IN  [changes_add |-> info.changes_add + CountAdd(diff.changes),
              changes_del |-> info.changes_del + CountDel(diff.changes),
              test_changes_size |-> info.test_changes_size
                                      + (IF is_test(new_path) THEN n ELSE 0),
              changes_size |-> info.changes_size + n]

\* The body of the for loop of patch_analysis: info after `diff`.
patch_analysis_diff(diff, info) ==
    IF ~DiffCounted(diff) THEN info
    ELSE LET new_path == StripPrefix(Get(diff.header))
             n == Len(diff.changes)
         IN  [changes_add |-> info.changes_add + CountAdd(diff.changes),
              changes_del |-> info.changes_del + CountDel(diff.changes),
              test_changes_size |-> info.test_changes_size
                                      + (IF is_test(new_path) THEN n ELSE 0),
              changes_size |-> info.changes_size
                                 + (IF is_test(new_path) THEN 0 ELSE n)]

RECURSIVE PatchScan(_, _)
PatchScan(patch, info) ==
    IF patch = <<>> THEN info
    ELSE PatchScan(Tail(patch), patch_analysis_diff(Head(patch), info))

patch_analysis(patch) == PatchScan(patch, PATCH_INFO)

\* ------------------------------------------------------ attachment_handler
\* An attachment: flags is a list of [name, status]; data is what the base64
\* payload decodes to: the parsed patch for a patch, and for a review-board
\* request the review number the URL pattern extracts (None: no match);
\* raw_diff is what reviewboard serves for that review.
Flag(name, status) == [name |-> name, status |-> status]
Attachment(id, flags, is_patch, is_obsolete, content_type, patch, review, raw_diff) ==
    [id |-> id, flags |-> flags, is_patch |-> is_patch, is_obsolete |-> is_obsolete,
     content_type |-> content_type, patch |-> patch, review |-> review,
     raw_diff |-> raw_diff]

\* sum(flag['name'] == 'review' and flag['status'] == '+' for flag in flags)
RECURSIVE ReviewPlus(_)
ReviewPlus(flags) ==
    IF flags = <<>> THEN 0
    ELSE (IF Head(flags).name = "review" /\ Head(flags).status = "+" THEN 1 ELSE 0)
         + ReviewPlus(Tail(flags))

IsInlinePatch(a) == a.is_patch = 1 /\ a.is_obsolete = 0
IsReviewRequest(a) ==
    ~IsInlinePatch(a) /\ a.content_type = "text/x-review-board-request"
    /\ a.is_obsolete = 0

\* patch_data of one attachment: None when the attachment is passed over.
patch_data(a) ==
    IF ReviewPlus(a.flags) = 0 THEN None
    ELSE IF IsInlinePatch(a) THEN Some(a.patch)
    ELSE IF IsReviewRequest(a) THEN Some(a.raw_diff)
    ELSE None

\* re.search(MOZREVIEW_URL_PAT, url).group(1) on a URL without the pattern
\* raises AttributeError.
AttachmentRaises(a) ==
    ReviewPlus(a.flags) # 0 /\ IsReviewRequest(a) /\ a.review = None

\* The first loop of attachment_handler: the local dict `info`
\* (attachment id -> patch_analysis result), or an exception.
RECURSIVE AttachmentScan(_, _)
AttachmentScan(atts, info) ==
    IF atts = <<>> THEN [raised |-> FALSE, info |-> info]
    ELSE LET a == Head(atts)
         IN  IF AttachmentRaises(a) THEN [raised |-> TRUE, info |-> info]
             ELSE IF patch_data(a) = None THEN AttachmentScan(Tail(atts), info)
             ELSE AttachmentScan(Tail(atts),
                    [k \in DOMAIN info \cup {a.id} |->
                        IF k = a.id THEN patch_analysis(Get(patch_data(a)))
                        ELSE info[k]])

\* sum(v[k] for v in info.values())
RECURSIVE SumOver(_, _, _)
SumOver(info, keys, k) ==
    IF keys = {} THEN 0
    ELSE LET a == CHOOSE x \in keys : TRUE
         IN  info[a][k] + SumOver(info, keys \ {a}, k)

\* The second loop: new_info, the value of data[bugid]['patches'].
new_info(info) ==
    [changes_size |-> SumOver(info, DOMAIN info, "changes_size"),
     test_changes_size |-> SumOver(info, DOMAIN info, "test_changes_size"),
     changes_add |-> SumOver(info, DOMAIN info, "changes_add"),
     changes_del |-> SumOver(info, DOMAIN info, "changes_del")]

\* --------------------------------------------------------- comment_handler
Revs == {"r1", "r2"}

\* d of comment_handler: one landing entry for each revision of the landing
\* comments; bugid is the key of the comments reply, a string.
comment_handler_land(bugid, revisions) ==
    [r \in revisions |-> [date |-> None, backedout |-> FALSE, bugid |-> bugid]]

\* ------------------------------------------------------------------ get_hg
\* A commit message, as far as the two patterns of get_hg read it: a list of
\* words, each [kind, num]: "backout" for text that backout_pattern matches
\* (only at the start of the message), "bug" for text bug_pattern matches,
\* num being its digits, "text" for anything else.
Word(kind, num) == [kind |-> kind, num |-> num]

\* backout_pattern.search(desc): '^back(ed)? ?out'
backout_match(desc) == desc # <<>> /\ Head(desc).kind = "backout"

\* bug_pattern.search(desc): group(1) of the first match, None without one
RECURSIVE bug_match(_)
bug_match(desc) ==
    IF desc = <<>> THEN None
    ELSE IF Head(desc).kind = "bug" THEN Some(Head(desc).num)
    ELSE bug_match(Tail(desc))

RevJson(pushdate, backedoutby, desc) ==
    [pushdate |-> pushdate, backedoutby |-> backedoutby, desc |-> desc]

\* utils.get_date_str of the UTC push time: its day
get_date_str(ts) == ts \div TicksPerDay

\* handler_rev with `if m and m.group(1) != data['bugid']`: a message without
\* a bug number keeps the bug id
handler_rev_keeps_unmatched(json, entry) ==
    LET backedout == (json.backedoutby # "") \/ backout_match(json.desc)
        m == bug_match(json.desc)
    IN  [date |-> Some(get_date_str(json.pushdate)),
         backedout |-> backedout,
         bugid |-> IF m # None /\ Get(m) # entry.bugid THEN "" ELSE entry.bugid]

\* handler_rev(json, data): the landing entry after the lookup
handler_rev(json, entry) ==
    LET backedout == (json.backedoutby # "") \/ backout_match(json.desc)
        m == bug_match(json.desc)
    IN  [date |-> Some(get_date_str(json.pushdate)),
         backedout |-> backedout,
         bugid |-> IF m = None \/ Get(m) # entry.bugid THEN "" ELSE entry.bugid]

\* [v['backedout'] for v in info['land'].values()].count(False)
RECURSIVE CountLanded(_, _)
CountLanded(land, revs) ==
    IF revs = {} THEN 0
    ELSE LET r == CHOOSE x \in revs : TRUE
         IN  (IF land[r].backedout = FALSE THEN 1 ELSE 0)
             + CountLanded(land, revs \ {r})

\* the count taken over all landing entries, backed out or not
landed_patches_all(info) == Cardinality(DOMAIN info.land)

landed_patches(info) == CountLanded(info.land, DOMAIN info.land)

\* ----------------------------------------------------------------- prepare
\* Python orders strings by code point; the names of the model in that order.
SortedNames == <<"Core", "DOM", "Firefox", "General", "Testing", "Untriaged">>
StrRank(s) == CHOOSE i \in 1..Len(SortedNames) : SortedNames[i] = s

\* the key with the landed-patch count not negated
sort_patches_ascending(bugid, info) ==
    <<StrRank(info.product), StrRank(info.component),
      Get(info.landed_patches), -Get(info.patches).changes_size,
      -Get(info.patches).test_changes_size, -bugid>>

\* The key function `sort` of prepare; a string stands by its rank.
sort(bugid, info) ==
    <<StrRank(info.product), StrRank(info.component),
      -Get(info.landed_patches), -Get(info.patches).changes_size,
      -Get(info.patches).test_changes_size, -bugid>>

\* Python's tuple comparison k1 < k2
RECURSIVE TupleLess(_, _)
TupleLess(k1, k2) ==
    IF k1 = <<>> THEN k2 # <<>>
    ELSE IF k2 = <<>> THEN FALSE
    ELSE IF Head(k1) < Head(k2) THEN TRUE
    ELSE IF Head(k2) < Head(k1) THEN FALSE
    ELSE TupleLess(Tail(k1), Tail(k2))

\* sorted(): a stable sort; an item goes after the items that are not greater
RECURSIVE Insert(_, _, _)
Insert(sorted, bugid, bugs) ==
    IF sorted = <<>> THEN <<bugid>>
    ELSE IF TupleLess(sort(bugid, bugs[bugid]), sort(Head(sorted), bugs[Head(sorted)]))
         THEN <<bugid>> \o sorted
         ELSE <<Head(sorted)>> \o Insert(Tail(sorted), bugid, bugs)

RECURSIVE SortedIds(_, _)
SortedIds(bugs, ids) ==
    IF ids = {} THEN <<>>
    ELSE LET last == CHOOSE x \in ids : \A y \in ids : y <= x
         IN  Insert(SortedIds(bugs, ids \ {last}), last, bugs)

\* The row prepare builds for one bug (the fields the report's numbers and
\* order rest on).
Row(bugid, info) ==
    [bug |-> bugid, product |-> info.product, component |-> info.component,
     patches |-> Get(info.landed_patches),
     addlines |-> Get(info.patches).changes_add,
     rmlines |-> Get(info.patches).changes_del,
     size |-> Get(info.patches).changes_size,
     test_size |-> Get(info.patches).test_changes_size,
     qaverified |-> IF Get(info.softvision) THEN "Yes" ELSE "No"]

\* A key prepare reads is missing from a record: KeyError
PrepareRaises(bugs) ==
    \E b \in DOMAIN bugs :
        bugs[b].landed_patches = None \/ bugs[b].patches = None
        \/ bugs[b].softvision = None

prepare(bugs) ==
    LET ids == SortedIds(bugs, DOMAIN bugs)
    IN  [i \in 1..Len(ids) |-> Row(ids[i], bugs[ids[i]])]

\* ------------------------------------------------------------------ inputs
\* What the outside world can hand the freeze report.
TargetDates == {9}
NoRange == <<>>
Ranges == {NoRange, <<8, 14>>, <<10, 12>>}
Calendars ==
    {<<>>,
     <<Event(TRUE, TRUE, 8)>>,
     <<Event(TRUE, TRUE, 11)>>,
     <<Event(FALSE, FALSE, 8), Event(TRUE, FALSE, 9), Event(TRUE, TRUE, 1)>>}

BugJson(product, component) == [product |-> product, component |-> component]
BugKinds == {BugJson("Core", "DOM"), BugJson("Testing", "DOM"),
             BugJson("Core", "Untriaged")}
Searches == UNION {[ids -> BugKinds] : ids \in SUBSET BugIds}

FlagChange(when, removed, added) ==
    Changes(when, "dev@mozilla.com", <<Change(flag, removed, added)>>)
FixedAt(when) == FlagChange(when, "affected", "fixed")
VerifiedBy(when, who) == Changes(when, who, <<Change("status", "RESOLVED", "VERIFIED")>>)
Histories(d) ==
    {<<>>,
     <<VerifiedBy(d * TicksPerDay - 1, "qa@softvision.ro"), FixedAt(d * TicksPerDay)>>,
     <<FixedAt(d * TicksPerDay), FlagChange(d * TicksPerDay + 1, "fixed", "affected"),
       FixedAt((d + 1) * TicksPerDay)>>}

SrcPath == <<"b/", "dom/base/nsDocument", ".", "cpp">>
TestPath == <<"b/", "dom/", "test", "/unit/x", ".", "js">>
TestJsonPath == <<"dom/", "test", "/unit/x", ".", "json">>
ReviewPlusFlags == <<Flag("feedback", "+"), Flag("review", "+")>>
SmallPatch == <<Diff(Some(SrcPath), <<CtxPair, DelPair, AddPair>>),
                Diff(Some(TestPath), <<AddPair>>)>>
InlinePatch(id, flags, obsolete, patch) ==
    Attachment(id, flags, 1, obsolete, "text/plain", patch, None, <<>>)
ReviewRequest(id, flags, obsolete, review, raw_diff) ==
    Attachment(id, flags, 0, obsolete, "text/x-review-board-request", <<>>, review,
               raw_diff)
AttachmentLists ==
    {<<InlinePatch(1, ReviewPlusFlags, 0, SmallPatch)>>,
     <<ReviewRequest(1, ReviewPlusFlags, 0, None, <<>>)>>}

LandingComments == {{}, {"r1", "r2"}}

RevJsons ==
    {RevJson(9 * TicksPerDay, "", <<Word("text", ""), Word("bug", "1")>>),
     RevJson(9 * TicksPerDay + 1, "abcdef", <<Word("text", "")>>),
     RevJson(10 * TicksPerDay, "", <<Word("backout", ""), Word("bug", "2"), Word("bug", "1")>>)}

\* -------------------------------------------------------------- get_bugs
NoData == <<>>

InitCfw ==
    /\ pc = "start"
    /\ date = 0
    /\ start_date = None
    /\ end_date = None
    /\ found = <<>>
    /\ pendingBugs = {}
    /\ data = <<>>
    /\ invalids = <<>>
    /\ pendingSec = {}
    /\ history = [b \in BugIds |-> None]
    /\ attachments = [b \in BugIds |-> None]
    /\ hg = [r \in Revs |-> None]
    /\ pendingRev = {}
    /\ rows = NoData
    /\ out = ""
    /\ queries = 0
    /\ raised = FALSE

\* get_bugs up to the primary search: the window, then either the search is
\* sent, or [] is returned, or utils.get_date_ymd(None) raises.
GetBugs(d, date_range, cal, result) ==
    /\ pc = "start"
    /\ date' = d
    /\ LET sd == IF date_range = NoRange THEN get_start_date(d, cal)
                 ELSE Some(date_range[1])
           ed == IF date_range = NoRange
                 THEN (IF sd = None THEN None ELSE Some(Get(sd) + 6))
                 ELSE Some(date_range[2])
       IN  /\ start_date' = sd
           /\ end_date' = ed
           /\ IF sd = None
              THEN /\ pc' = "error"
                   /\ UNCHANGED <<found, pendingBugs, queries>>
              ELSE IF Get(sd) <= d /\ d <= Get(ed)
              THEN /\ pc' = "wait_primary"
                   /\ found' = result
                   /\ pendingBugs' = DOMAIN result
                   /\ queries' = queries + 1
              ELSE /\ pc' = "returned"
                   /\ UNCHANGED <<found, pendingBugs, queries>>
    /\ UNCHANGED <<data, invalids, pendingSec, history, attachments, hg, pendingRev,
                   rows, out, raised>>
    /\ UNCHANGED regrvars

\* bug_handler, called by the search for one of its results
BugHandler(b) ==
    /\ b \in pendingBugs
    /\ pendingBugs' = pendingBugs \ {b}
    /\ data' = bug_handler_data(b, found[b], data)
    /\ UNCHANGED <<pc, date, start_date, end_date, found, invalids, pendingSec, history,
                   attachments, hg, pendingRev, rows, out, queries, raised>>
    /\ UNCHANGED regrvars

\* .get_data().wait() of the primary search returns
PrimaryDone == pendingBugs = {}

\* get_bugs from the return of the primary wait(): the secondary queries
SecondaryKinds == {"comment", "history", "attachment"}
FetchSecondary ==
    /\ pc = "wait_primary"
    /\ PrimaryDone
    /\ pc' = "wait_secondary"
    /\ invalids' = <<>>
    /\ pendingSec' = SecondaryKinds \X (DOMAIN data)
    /\ queries' = queries + 1
    /\ UNCHANGED <<date, start_date, end_date, found, pendingBugs, data, history,
                   attachments, hg, pendingRev, rows, out, raised>>
    /\ UNCHANGED regrvars

comment_handler(b, revisions) ==
    /\ <<"comment", b>> \in pendingSec
    /\ pendingSec' = pendingSec \ {<<"comment", b>>}
    /\ IF b \in DOMAIN data
       THEN /\ data' = [data EXCEPT ![b].land = comment_handler_land(IdStr(b), revisions)]
            /\ UNCHANGED raised
       ELSE /\ raised' = TRUE
            /\ UNCHANGED data
    /\ UNCHANGED <<pc, date, start_date, end_date, found, pendingBugs, invalids, history,
                   attachments, hg, pendingRev, rows, out, queries>>
    /\ UNCHANGED regrvars

\* the handler setting the softvision field of every record, not of its own
history_handler_every_record(b, h) ==
    /\ <<"history", b>> \in pendingSec
    /\ pendingSec' = pendingSec \ {<<"history", b>>}
    /\ history' = [history EXCEPT ![b] = Some(h)]
    /\ LET st == history_handler_result(date, h)
       IN  /\ data' = [b2 \in DOMAIN data |->
                         [data[b2] EXCEPT !.softvision = Some(st.softvision)]]
           /\ invalids' = IF st.valid THEN invalids ELSE Append(invalids, b)
    /\ UNCHANGED <<pc, date, start_date, end_date, found, pendingBugs, attachments, hg,
                   pendingRev, rows, out, queries, raised>>
    /\ UNCHANGED regrvars

history_handler(b, h) ==
    /\ <<"history", b>> \in pendingSec
    /\ pendingSec' = pendingSec \ {<<"history", b>>}
    /\ history' = [history EXCEPT ![b] = Some(h)]
    /\ IF b \in DOMAIN data
       THEN LET st == history_handler_result(date, h)
            IN  /\ data' = [data EXCEPT ![b].softvision = Some(st.softvision)]
                /\ invalids' = IF st.valid THEN invalids ELSE Append(invalids, b)
                /\ UNCHANGED raised
       ELSE /\ raised' = TRUE
            /\ UNCHANGED <<data, invalids>>
    /\ UNCHANGED <<pc, date, start_date, end_date, found, pendingBugs, attachments, hg,
                   pendingRev, rows, out, queries>>
    /\ UNCHANGED regrvars

attachment_handler(b, atts) ==
    /\ <<"attachment", b>> \in pendingSec
    /\ pendingSec' = pendingSec \ {<<"attachment", b>>}
    /\ attachments' = [attachments EXCEPT ![b] = Some(atts)]
    /\ LET scan == AttachmentScan(atts, <<>>)
       IN  IF ~scan.raised /\ b \in DOMAIN data
           THEN /\ data' = [data EXCEPT ![b].patches = Some(new_info(scan.info))]
                /\ UNCHANGED raised
           ELSE /\ raised' = TRUE
                /\ UNCHANGED data
    /\ UNCHANGED <<pc, date, start_date, end_date, found, pendingBugs, invalids, history,
                   hg, pendingRev, rows, out, queries>>
    /\ UNCHANGED regrvars

\* get_bugs going on without waiting for the secondary queries
SecondaryNotAwaited == TRUE

\* .get_data().wait() of the secondary queries returns
SecondaryDone == pendingSec = {}

\* `for invalid in invalids: del data[invalid]`
RemoveInvalids(d, inv) == [b \in DOMAIN d \ Range(inv) |-> d[b]]

\* get_bugs from the return of the secondary wait(): the invalid bugs go,
\* get_hg sends one lookup for each landing entry of the bugs that stay
FetchRevisions ==
    /\ pc = "wait_secondary"
    /\ SecondaryDone
    /\ IF raised \/ ~(Range(invalids) \subseteq DOMAIN data)
       THEN /\ pc' = "error"
            /\ UNCHANGED <<data, pendingRev>>
       ELSE /\ pc' = "wait_hg"
            /\ data' = RemoveInvalids(data, invalids)
            /\ pendingRev' = {<<b, r>> \in (DOMAIN data') \X Revs : r \in DOMAIN data'[b].land}
    /\ UNCHANGED <<date, start_date, end_date, found, pendingBugs, invalids, pendingSec,
                   history, attachments, hg, rows, out, queries, raised>>
    /\ UNCHANGED regrvars

\* handler_rev for one landing entry; hg serves one JSON for one revision
HandlerRev(b, r, json) ==
    /\ <<b, r>> \in pendingRev
    /\ hg[r] \in {None, Some(json)}
    /\ hg' = [hg EXCEPT ![r] = Some(json)]
    /\ pendingRev' = pendingRev \ {<<b, r>>}
    /\ data' = [data EXCEPT ![b].land[r] = handler_rev(json, @)]
    /\ UNCHANGED <<pc, date, start_date, end_date, found, pendingBugs, invalids,
                   pendingSec, history, attachments, rows, out, queries, raised>>
    /\ UNCHANGED regrvars

\* hgmozilla.Revision(queries=queries).wait() returns (at once without queries)
RevisionsDone == pendingRev = {}

\* the last loop of get_hg
CountPatches ==
    /\ pc = "wait_hg"
    /\ RevisionsDone
    /\ pc' = "prepare"
    /\ data' = [b \in DOMAIN data |->
                  [data[b] EXCEPT !.landed_patches = Some(landed_patches(data[b]))]]
    /\ UNCHANGED <<date, start_date, end_date, found, pendingBugs, invalids, pendingSec,
                   history, attachments, hg, pendingRev, rows, out, queries, raised>>
    /\ UNCHANGED regrvars

\* `return major, prepare(major, data)`
Prepare ==
    /\ pc = "prepare"
    /\ IF PrepareRaises(data)
       THEN pc' = "error" /\ UNCHANGED rows
       ELSE pc' = "returned" /\ rows' = prepare(data)
    /\ UNCHANGED <<date, start_date, end_date, found, pendingBugs, data, invalids,
                   pendingSec, history, attachments, hg, pendingRev, out, queries, raised>>
    /\ UNCHANGED regrvars

\* send_email after get_bugs returned: the report, or 'No data for ...'
SendEmail ==
    /\ pc = "returned"
    /\ pc' = "done"
    /\ out' = IF rows # NoData THEN "report" ELSE "nodata"
    /\ UNCHANGED <<date, start_date, end_date, found, pendingBugs, data, invalids,
                   pendingSec, history, attachments, hg, pendingRev, rows, queries, raised>>
    /\ UNCHANGED regrvars

\* The steps of one run of the freeze report, their inputs drawn from the
\* sets above.
Start ==
    \E d \in TargetDates, date_range \in Ranges, cal \in Calendars, result \in Searches :
        GetBugs(d, date_range, cal, result)
PrimaryFetch == \E b \in BugIds : BugHandler(b)
Comments == \E b \in BugIds, revisions \in LandingComments : comment_handler(b, revisions)
History == \E b \in BugIds : \E h \in Histories(date) : history_handler(b, h)
Attachments == \E b \in BugIds, atts \in AttachmentLists : attachment_handler(b, atts)
RevisionLookup == \E b \in BugIds, r \in Revs, json \in RevJsons : HandlerRev(b, r, json)

NextCfw ==
    \/ Start
    \/ PrimaryFetch
    \/ FetchSecondary
    \/ Comments
    \/ History
    \/ Attachments
    \/ FetchRevisions
    \/ RevisionLookup
    \/ CountPatches
    \/ Prepare
    \/ SendEmail

\* ======================================================= regression report
\* history_handler of regrs.py: data[bugid] after the loops.  `when != date`
\* compares the change's time with midnight of the date.
RECURSIVE RegrChanges(_, _)
RegrChanges(changes, reg) ==
    IF changes = <<>> THEN reg
    ELSE LET change == Head(changes)
         IN  IF change.field_name # flag THEN RegrChanges(Tail(changes), reg)
             ELSE IF change.removed \in {"verified", "fixed"}
                     /\ change.added \in {"---", "affected"}
                  THEN RegrChanges(Tail(changes), TRUE)
                  ELSE RegrChanges(Tail(changes), reg)

RECURSIVE RegrScan(_, _, _)
RegrScan(d, h, reg) ==
    IF h = <<>> THEN reg
    ELSE IF d # None /\ Head(h).when # Get(d) * TicksPerDay
         THEN RegrScan(d, Tail(h), reg)
         ELSE RegrScan(d, Tail(h), RegrChanges(Head(h).changes, reg))

regr_history_handler(d, h) == RegrScan(d, h, FALSE)

\* filter_bugs that reconciles on the status alone
filter_bugs_status_only(d, hd) ==
    [b \in DOMAIN hd |-> IF ~hd[b] /\ d[b].status = "REOPENED" THEN TRUE ELSE hd[b]]

\* filter_bugs: hdata after the loop
filter_bugs(d, hd) ==
    [b \in DOMAIN hd |->
        IF ~hd[b] /\ d[b].status = "REOPENED" /\ d[b].flag \in {"verified", "fixed"}
        THEN TRUE ELSE hd[b]]

TreatedFile == "treated.json"

\* check_bugs without the write of its else branch: a missing file stays missing
check_bugs_no_create(ids, path, f) ==
    IF path # "" /\ f # None
    THEN LET newbugs == ids \ Get(f)
         IN  [ret |-> newbugs,
              file |-> IF newbugs # {} THEN Some(Get(f) \cup newbugs) ELSE f]
    ELSE [ret |-> ids, file |-> f]

\* check_bugs without the write of its if branch: an existing file stays as it is
check_bugs_no_append(ids, path, f) ==
    IF path # ""
    THEN IF f # None
         THEN [ret |-> ids \ Get(f), file |-> f]
         ELSE [ret |-> ids, file |-> Some(ids)]
    ELSE [ret |-> ids, file |-> f]

\* check_bugs: [ret, file]: what it returns and the file it leaves
check_bugs(ids, path, f) ==
    IF path # ""
    THEN IF f # None
         THEN LET newbugs == ids \ Get(f)
              IN  [ret |-> newbugs,
                   file |-> IF newbugs # {} THEN Some(Get(f) \cup newbugs) ELSE f]
         ELSE [ret |-> ids, file |-> Some(ids)]
    ELSE [ret |-> ids, file |-> f]

\* sorted(links, key=lambda p: p[0]) of the bugs flagged true
RECURSIVE Ascending(_)
Ascending(ids) ==
    IF ids = {} THEN <<>>
    ELSE LET least == CHOOSE x \in ids : \A y \in ids : x <= y
         IN  <<least>> \o Ascending(ids \ {least})

make_links(hd) == Ascending({b \in DOMAIN hd : hd[b]})

InitRegr ==
    /\ rpc = "idle"
    /\ treated = ""
    /\ rdate = None
    /\ rdata = <<>>
    /\ bugids = {}
    /\ pendingHist = {}
    /\ rhistory = [b \in BugIds |-> None]
    /\ hdata = <<>>
    /\ links = <<>>
    /\ file = None
    /\ reported = {}
    /\ runs = 0

\* get_links up to the history queries: the search (its bug_handler stores
\* every bug it returns), check_bugs, and the history queries sent
GetLinks(d, path, result) ==
    /\ rpc = "idle"
    /\ runs < MaxRuns
    /\ rpc' = "wait_history"
    /\ rdate' = d
    /\ treated' = path
    /\ rdata' = result
    /\ LET c == check_bugs(DOMAIN result, path, file)
       IN  /\ bugids' = c.ret
           /\ file' = c.file
           /\ pendingHist' = c.ret
    /\ rhistory' = [b \in BugIds |-> None]
    /\ hdata' = <<>>
    /\ links' = <<>>
    /\ UNCHANGED <<reported, runs>>
    /\ UNCHANGED cfwvars

\* history_handler of regrs.py for one bug
RegrHistoryHandler(b, h) ==
    /\ b \in pendingHist
    /\ pendingHist' = pendingHist \ {b}
    /\ rhistory' = [rhistory EXCEPT ![b] = Some(h)]
    /\ hdata' = [x \in DOMAIN hdata \cup {b} |->
                    IF x = b THEN regr_history_handler(rdate, h) ELSE hdata[x]]
    /\ UNCHANGED <<rpc, treated, rdate, rdata, bugids, links, file, reported, runs>>
    /\ UNCHANGED cfwvars

\* .get_data().wait() of the history queries returns
HistoriesDone == pendingHist = {}

\* get_links from the return of wait(): filter_bugs and the sorted links
FilterLinks ==
    /\ rpc = "wait_history"
    /\ HistoriesDone
    /\ rpc' = "filtered"
    /\ hdata' = filter_bugs(rdata, hdata)
    /\ links' = make_links(hdata')
    /\ UNCHANGED <<treated, rdate, rdata, bugids, pendingHist, rhistory, file, reported,
                   runs>>
    /\ UNCHANGED cfwvars

\* `return links`: the links go to the caller, the locals of get_links are gone
ReturnLinks ==
    /\ rpc = "filtered"
    /\ rpc' = "idle"
    /\ reported' = IF treated # "" THEN reported \cup Range(links) ELSE reported
    /\ runs' = runs + 1
    /\ treated' = ""
    /\ rdate' = None
    /\ rdata' = <<>>
    /\ bugids' = {}
    /\ hdata' = <<>>
    /\ rhistory' = [x \in BugIds |-> None]
    /\ UNCHANGED <<pendingHist, links, file>>
    /\ UNCHANGED cfwvars

\* What the outside world can hand the regression report.
RegrBug(status, flagvalue) == [status |-> status, flag |-> flagvalue]

\* ------------------------------------------------------- the freeze report
Init == InitCfw /\ InitRegr
Next == NextCfw
Spec == Init /\ [][Next]_vars

\* --------------------------------------- the regression report, run by run
RegrKinds == {RegrBug("REOPENED", "fixed"), RegrBug("RESOLVED", "affected")}
RegrSearches == UNION {[ids -> RegrKinds] : ids \in SUBSET BugIds}
RegrHistories == {<<>>, <<FlagChange(9 * TicksPerDay, "verified", "affected")>>}

RegrStart ==
    \E path \in {"", TreatedFile}, result \in RegrSearches : GetLinks(None, path, result)
RegrHistory == \E b \in BugIds, h \in RegrHistories : RegrHistoryHandler(b, h)

NextRegr == RegrStart \/ RegrHistory \/ FilterLinks \/ ReturnLinks
SpecRegr == Init /\ [][NextRegr]_vars

\* ------------------------- the regression report, one run, richer histories
FilterIds == {1, 2}
FilterKinds == {RegrBug("REOPENED", "verified"), RegrBug("REOPENED", "affected"),
                RegrBug("RESOLVED", "fixed")}
FilterSearches == UNION {[ids -> FilterKinds] : ids \in SUBSET FilterIds}
FilterDates == {None, Some(9)}
\* at midnight of day 9: a regression; later that day: a regression; and a
\* group that changes another field the same way and the flag the other way
FilterEvents ==
    {FlagChange(9 * TicksPerDay, "fixed", "affected"),
     FlagChange(9 * TicksPerDay + 1, "verified", "---"),
     Changes(9 * TicksPerDay, "dev@mozilla.com",
             <<Change("cf_status_firefox_prev", "fixed", "affected"),
               Change(flag, "affected", "fixed")>>)}
FilterHistories == UNION {[1..n -> FilterEvents] : n \in 0..MaxHist}

FilterStart ==
    /\ runs = 0
    /\ \E d \in FilterDates, result \in FilterSearches : GetLinks(d, "", result)
FilterHistory == \E b \in FilterIds, h \in FilterHistories : RegrHistoryHandler(b, h)

NextFilter == FilterStart \/ FilterHistory \/ FilterLinks \/ ReturnLinks
SpecFilter == Init /\ [][NextFilter]_vars

\* ------------------------- attachment_handler on drawn attachment lists
\* A patch: up to MaxDiffs diffs, each without a header or with the header of
\* a source file or of a test file, and up to MaxChanges changed-line pairs.
Pairs == {AddPair, DelPair, CtxPair}
ChangeLists == UNION {[1..n -> Pairs] : n \in 0..MaxChanges}
Diffs == {Diff(h, c) : h \in {None, Some(SrcPath), Some(TestPath)}, c \in ChangeLists}
Patches == UNION {[1..n -> Diffs] : n \in 0..MaxDiffs}

JsonPatch == <<Diff(Some(TestJsonPath), <<AddPair, AddPair, CtxPair>>)>>
\* The attachments the handler tells apart, by the id they are given.
AttachmentKinds(id) ==
    {InlinePatch(id, ReviewPlusFlags, 0, SmallPatch),
     InlinePatch(id, ReviewPlusFlags, 1, SmallPatch),
     InlinePatch(id, <<Flag("review", "-")>>, 0, SmallPatch),
     InlinePatch(id, <<>>, 0, SmallPatch),
     ReviewRequest(id, ReviewPlusFlags, 0, Some(id), JsonPatch),
     ReviewRequest(id, ReviewPlusFlags, 0, None, <<>>),
     Attachment(id, <<Flag("review", "+"), Flag("review", "+")>>, 0, 0, "text/plain",
                SmallPatch, None, <<>>)}
KindLists ==
    UNION {{atts \in [1..n -> UNION {AttachmentKinds(id) : id \in 1..n}] :
               \A i \in 1..n : atts[i].id = i} : n \in 0..MaxAtts}
PatchLists == {<<InlinePatch(1, ReviewPlusFlags, 0, patch)>> : patch \in Patches}

\* attachment_handler is called for bug 1 of a run whose other secondary
\* handlers have run.
InitPatch ==
    /\ InitRegr
    /\ pc = "wait_secondary"
    /\ date = 9 /\ start_date = Some(8) /\ end_date = Some(14)
    /\ found = [b \in {1} |-> BugJson("Core", "DOM")]
    /\ pendingBugs = {}
    /\ data = [b \in {1} |->
                 [NewRecord(found[b]) EXCEPT !.softvision = Some(FALSE)]]
    /\ invalids = <<>>
    /\ pendingSec = {<<"attachment", 1>>}
    /\ history = [b \in BugIds |-> IF b = 1 THEN Some(<<FixedAt(9 * TicksPerDay)>>) ELSE None]
    /\ attachments = [b \in BugIds |-> None]
    /\ hg = [r \in Revs |-> None]
    /\ pendingRev = {}
    /\ rows = NoData
    /\ out = ""
    /\ queries = 2
    /\ raised = FALSE

PatchAttachments ==
    /\ <<"attachment", 1>> \in pendingSec
    /\ \E atts \in PatchLists : attachment_handler(1, atts)
KindAttachments ==
    /\ <<"attachment", 1>> \in pendingSec
    /\ \E atts \in KindLists : attachment_handler(1, atts)
NextPatch == PatchAttachments \/ KindAttachments
SpecPatch == InitPatch /\ [][NextPatch]_vars

\* ------------------------------------------------ prepare on drawn records
SortRecord(product, component, landed, size, test_size) ==
    [product |-> product, component |-> component,
     land |-> [r \in (IF landed = 0 THEN {} ELSE {"r1"}) |->
                 [date |-> Some(9), backedout |-> FALSE, bugid |-> ""]],
     softvision |-> Some(FALSE),
     patches |-> Some([changes_size |-> size, test_changes_size |-> test_size,
                       changes_add |-> size, changes_del |-> test_size]),
     landed_patches |-> Some(landed)]
SortRecords ==
    {SortRecord("Core", "DOM", 0, 0, 0), SortRecord("Firefox", "DOM", 0, 0, 0),
     SortRecord("Core", "General", 0, 0, 0), SortRecord("Core", "DOM", 1, 0, 0),
     SortRecord("Core", "DOM", 0, 1, 0), SortRecord("Core", "DOM", 0, 0, 1)}
SortInputs == UNION {[ids -> SortRecords] : ids \in SUBSET (1..MaxRows)}

\* prepare is called with a drawn mapping of bug records.
InitPrepare ==
    /\ InitRegr
    /\ pc = "prepare"
    /\ date = 9 /\ start_date = Some(8) /\ end_date = Some(14)
    /\ data \in SortInputs
    /\ found = [b \in DOMAIN data |-> BugJson(data[b].product, data[b].component)]
    /\ pendingBugs = {}
    /\ invalids = <<>>
    /\ pendingSec = {}
    /\ history = [b \in BugIds |-> None]
    /\ attachments = [b \in BugIds |-> None]
    /\ hg = [r \in Revs |-> None]
    /\ pendingRev = {}
    /\ rows = NoData
    /\ out = ""
    /\ queries = 2
    /\ raised = FALSE

NextPrepare == Prepare \/ SendEmail
SpecPrepare == InitPrepare /\ [][NextPrepare]_vars

\* ------------------------------------------------------------------ claims
InWindow == start_date # None /\ Get(start_date) <= date /\ date <= Get(end_date)
RowIds == {rows[i].bug : i \in 1..Len(rows)}

\* C1: when get_bugs has returned for a target date inside the window, the
\* rows hold exactly one row for each bug of the primary search whose product
\* and component are both outside the denylists and which history_handler
\* did not put in `invalids`, and no row for any other bug.
C1_RowsAreTheKeptBugs ==
    (pc \in {"returned", "done"} /\ InWindow) =>
        /\ RowIds = {b \in DOMAIN found :
                        /\ found[b].product \notin get_products_blacklist
                        /\ found[b].component \notin get_components_blacklist
                        /\ b \notin Range(invalids)}
        /\ \A i, j \in 1..Len(rows) : rows[i].bug = rows[j].bug => i = j

\* C1's case: the search returned two bugs, one of them was dropped because
\* of its history, and the other one is the only row.
C1_Witness ==
    /\ pc = "done"
    /\ Cardinality(DOMAIN found) = 2
    /\ Len(invalids) = 1
    /\ Len(rows) = 1
    /\ rows[1].bug \notin Range(invalids)

\* A change event that sets the tracked flag to "fixed" within
\* [target date, target date + 1 day)
FixedInWindow(h) ==
    \E i \in 1..Len(h) : \E j \in 1..Len(h[i].changes) :
        /\ h[i].changes[j].field_name = flag
        /\ h[i].changes[j].added = "fixed"
        /\ date * TicksPerDay <= h[i].when
        /\ h[i].when < (date + 1) * TicksPerDay

\* C2: once history_handler has run for a bug, the bug is valid (not in
\* `invalids`) exactly when its history holds a change of the tracked flag
\* to "fixed" timed within the target day, whatever else the history holds.
C2_ValidIffFixedInWindow ==
    \A b \in BugIds :
        (history[b] # None /\ <<"history", b>> \notin pendingSec /\ b \in DOMAIN found
            /\ ~Denylisted(found[b])) =>
            ((b \notin Range(invalids)) <=> FixedInWindow(Get(history[b])))

\* C3: after get_hg, landed_patches of every bug record is the number of
\* entries of its `land` mapping whose backedout flag is false.
C3_LandedPatchesCount ==
    (pc \in {"prepare", "returned", "done"}) =>
        \A b \in DOMAIN data :
            data[b].landed_patches =
                Some(Cardinality({r \in DOMAIN data[b].land : ~data[b].land[r].backedout}))

\* C3's case: a bug with two landing entries, one backed out and one not.
C3_Witness ==
    /\ pc = "prepare"
    /\ \E b \in DOMAIN data :
          /\ data[b].landed_patches = Some(1)
          /\ \E r1, r2 \in DOMAIN data[b].land :
                data[b].land[r1].backedout /\ ~data[b].land[r2].backedout

\* C6: a run whose window cannot be resolved, or whose target date lies
\* outside the window, ends normally: no error, no rows, no query to the bug
\* tracker, and send_email prints 'No data'.
C6_NoWindowNoData ==
    (pc \in {"error", "done"} /\ ~InWindow) =>
        (pc = "done" /\ rows = NoData /\ queries = 0 /\ out = "nodata")

\* The commit message names the bug id somewhere
References(desc, bugid) ==
    \E i \in 1..Len(desc) : desc[i].kind = "bug" /\ desc[i].num = bugid

\* C9: a handler_rev step for the entry of revision r of bug b, whose commit
\* message does not name b, leaves the entry in b's `land` mapping with the
\* date and the backedout value of the lookup and an empty bugid, and changes
\* no other landing entry and no other field of any bug record.
C9_OnlyBugidCleared ==
    [][\A b \in BugIds, r \in Revs :
          (<<b, r>> \in pendingRev /\ <<b, r>> \notin pendingRev'
              /\ b \in DOMAIN data /\ r \in DOMAIN data[b].land
              /\ ~References(Get(hg'[r]).desc, IdStr(b))) =>
            /\ DOMAIN data' = DOMAIN data
            /\ DOMAIN data'[b].land = DOMAIN data[b].land
            /\ data'[b].land[r] =
                  [date |-> Some(Get(hg'[r]).pushdate \div TicksPerDay),
                   backedout |-> (Get(hg'[r]).backedoutby # ""
                                    \/ (Get(hg'[r]).desc # <<>>
                                          /\ Get(hg'[r]).desc[1].kind = "backout")),
                   bugid |-> ""]
            /\ \A b2 \in DOMAIN data :
                  /\ \A r2 \in DOMAIN data[b2].land :
                        <<b2, r2>> # <<b, r>> => data'[b2].land[r2] = data[b2].land[r2]
                  /\ [data'[b2] EXCEPT !.land = <<>>] = [data[b2] EXCEPT !.land = <<>>]
      ]_vars

\* C9's case: an entry whose bugid was cleared by its lookup, beside an entry
\* of another bug that kept its bugid.
C9_Witness ==
    \E b, b2 \in DOMAIN data : \E r \in DOMAIN data[b].land, r2 \in DOMAIN data[b2].land :
        /\ b # b2
        /\ data[b].land[r].bugid = "" /\ data[b].land[r].date # None
        /\ data[b2].land[r2].bugid = IdStr(b2) /\ data[b2].land[r2].date # None

\* C10: the stages are barriers.  A secondary handler runs, or the secondary
\* queries are sent, only when no bug_handler call is outstanding; the
\* invalid bugs are removed and revision lookups are sent or handled only
\* when no secondary handler call is outstanding; prepare runs only when no
\* revision lookup is outstanding.
C10_StagesAreBarriers ==
    [][/\ (pendingSec' # pendingSec) => pendingBugs = {}
       /\ ((pc = "wait_secondary" /\ pc' = "wait_hg") \/ (pendingRev' # pendingRev)
             \/ ~(DOMAIN data \subseteq DOMAIN data'))
            => (pendingSec = {} /\ pendingBugs = {})
       /\ (pc = "prepare" /\ pc' # pc) => (pendingRev = {} /\ pendingSec = {})
      ]_vars

\* C10's case: a run with two bugs that went through all four stages.
C10_Witness ==
    /\ pc = "returned"
    /\ Len(rows) = 2
    /\ \E r \in Revs : hg[r] # None

\* A change of the tracked flag from "verified" or "fixed" to "---" or
\* "affected", in a change group the date filter keeps: every group when no
\* date is given, else the groups timed at the date
HasRegression(d, h) ==
    \E i \in 1..Len(h) : \E j \in 1..Len(h[i].changes) :
        /\ d = None \/ h[i].when = Get(d) * TicksPerDay
        /\ h[i].changes[j].field_name = flag
        /\ h[i].changes[j].removed \in {"verified", "fixed"}
        /\ h[i].changes[j].added \in {"---", "affected"}

Reconciled(bug) == bug.status = "REOPENED" /\ bug.flag \in {"fixed", "verified"}

C5_NeverReportedTwice ==
    (rpc = "filtered" /\ treated # "") => Range(links) \cap reported = {}

\* C5's case: a later run with the file, whose search returned a bug id that
\* was already reported and is a regression again; it is not in the links.
C5_Witness ==
    /\ rpc = "filtered" /\ treated # "" /\ runs >= 1
    /\ \E b \in DOMAIN rdata :
          b \in reported /\ Reconciled(rdata[b]) /\ b \notin Range(links)

\* The attachments attachment_handler analyses: a review+ flag, not
\* obsolete, and a patch or a review-board request; and the diff of one
Qualifies(a) ==
    /\ \E i \in 1..Len(a.flags) : a.flags[i].name = "review" /\ a.flags[i].status = "+"
    /\ a.is_obsolete = 0
    /\ a.is_patch = 1 \/ a.content_type = "text/x-review-board-request"
DiffOf(a) == IF a.is_patch = 1 THEN a.patch ELSE a.raw_diff

\* <<attachment, diff, pair>> indices of the changed-line pairs of the
\* qualifying attachments: all of them, and those of diffs with a header
AllPairs(atts) ==
    UNION {UNION {{<<k, i, j>> : j \in 1..Len(DiffOf(atts[k])[i].changes)} :
                     i \in 1..Len(DiffOf(atts[k]))} :
              k \in {k \in 1..Len(atts) : Qualifies(atts[k])}}
HeaderPairs(atts) == {t \in AllPairs(atts) : DiffOf(atts[t[1]])[t[2]].header # None}
OneSided(atts, t) ==
    LET pair == DiffOf(atts[t[1]])[t[2]].changes[t[3]]
    IN  (pair.old = None /\ pair.new # None) \/ (pair.new = None /\ pair.old # None)

\* C7 as stated: when attachment_handler has set the counters of bug 1,
\* changes_add + changes_del is the number of one-sided changed-line pairs
\* of the diffs of its qualifying attachments, and changes_size +
\* test_changes_size is the number of all their changed-line pairs.
C7_CountersMatchEveryDiff ==
    (attachments[1] # None /\ data[1].patches # None) =>
        LET atts == Get(attachments[1])
            info == Get(data[1].patches)
        IN  /\ info.changes_add + info.changes_del
                 = Cardinality({t \in AllPairs(atts) : OneSided(atts, t)})
            /\ info.changes_size + info.test_changes_size
                 = Cardinality(AllPairs(atts))

\* C7 amended: the same over the diffs that have a header (patch_analysis
\* passes over a diff without one); and the pairs of one file go to one of
\* the two size counters, not to both.
C7_CountersMatchHeaderDiffs ==
    (attachments[1] # None /\ data[1].patches # None) =>
        LET atts == Get(attachments[1])
            info == Get(data[1].patches)
        IN  /\ info.changes_add + info.changes_del
                 = Cardinality({t \in HeaderPairs(atts) : OneSided(atts, t)})
            /\ info.changes_size + info.test_changes_size
                 = Cardinality(HeaderPairs(atts))
            /\ Cardinality({<<t[1], t[2]>> : t \in HeaderPairs(atts)}) = 1
                 => (info.changes_size = 0 \/ info.test_changes_size = 0)

\* C7's case: two qualifying attachments with pairs of all kinds, in a test
\* file and in another file.
C7_Witness ==
    /\ attachments[1] # None /\ data[1].patches # None
    /\ Cardinality({k \in 1..Len(Get(attachments[1])) : Qualifies(Get(attachments[1])[k])}) = 2
    /\ Get(data[1].patches).changes_add > 0 /\ Get(data[1].patches).changes_del > 0
    /\ Get(data[1].patches).changes_size > 0 /\ Get(data[1].patches).test_changes_size > 0
    /\ Get(data[1].patches).changes_size
         > Get(data[1].patches).changes_add + Get(data[1].patches).changes_del

\* The key of row a is not greater than the key of row b
KeyNotGreater(a, b) ==
    \/ StrRank(a.product) < StrRank(b.product)
    \/ /\ a.product = b.product
       /\ \/ StrRank(a.component) < StrRank(b.component)
          \/ /\ a.component = b.component
             /\ \/ a.patches > b.patches
                \/ /\ a.patches = b.patches
                   /\ \/ a.size > b.size
                      \/ /\ a.size = b.size
                         /\ \/ a.test_size > b.test_size
                            \/ /\ a.test_size = b.test_size
                               /\ a.bug >= b.bug

\* C8: the rows prepare returns are the bug records it was given, one row
\* each, ordered by (product ascending, component ascending, landed patches
\* descending, changes_size descending, test_changes_size descending, bug id
\* descending): no row's key is greater than the next row's.
C8_RowsSorted ==
    (pc \in {"returned", "done"} /\ InWindow) =>
        /\ Len(rows) = Cardinality(DOMAIN data)
        /\ RowIds = DOMAIN data
        /\ \A i \in 1..Len(rows) :
              LET info == data[rows[i].bug]
              IN  /\ rows[i].product = info.product
                  /\ rows[i].component = info.component
                  /\ rows[i].patches = Get(info.landed_patches)
                  /\ rows[i].size = Get(info.patches).changes_size
                  /\ rows[i].test_size = Get(info.patches).test_changes_size
        /\ \A i \in 1..(Len(rows) - 1) : KeyNotGreater(rows[i], rows[i + 1])

\* C8's case: three rows of one product and component, the first two apart
\* by the number of landed patches and the last two by the bug id alone.
C8_Witness ==
    /\ pc = "returned" /\ Len(rows) = 3
    /\ rows[1].product = rows[3].product /\ rows[1].component = rows[3].component
    /\ rows[1].patches > rows[2].patches /\ rows[1].bug < rows[2].bug
    /\ rows[2].patches = rows[3].patches /\ rows[2].size = rows[3].size
    /\ rows[2].test_size = rows[3].test_size /\ rows[2].bug > rows[3].bug

\* A step of the comment, history or attachment handler of bug b
HandlerStep(kind, b) == <<kind, b>> \in pendingSec /\ <<kind, b>> \notin pendingSec'

\* The step changes no record but the one of bug b, and adds or removes none
OwnRecordOnly(b) ==
    /\ DOMAIN data' = DOMAIN data
    /\ \A b2 \in DOMAIN data : b2 # b => data'[b2] = data[b2]

\* When every secondary handler has returned, each record is what the
\* answers for its own bug make it, and invalids holds the bugs whose history
\* has no valid verdict: nothing of it depends on the order of the handlers.
SecondaryOutcome ==
    (pc = "wait_secondary" /\ pendingSec = {}) =>
        /\ \A b \in DOMAIN data :
              LET scan == AttachmentScan(Get(attachments[b]), <<>>)
              IN  /\ data[b].softvision
                       = Some(history_handler_result(date, Get(history[b])).softvision)
                  /\ data[b].patches
                       = IF scan.raised THEN None ELSE Some(new_info(scan.info))
                  /\ \A r \in DOMAIN data[b].land :
                        data[b].land[r] = [date |-> None, backedout |-> FALSE,
                                           bugid |-> IdStr(b)]
                  /\ [data[b] EXCEPT !.softvision = None, !.patches = None, !.land = <<>>]
                       = [NewRecord(found[b]) EXCEPT !.softvision = None,
                                                     !.patches = None, !.land = <<>>]
        /\ Range(invalids)
             = {b \in DOMAIN data : ~history_handler_result(date, Get(history[b])).valid}
        /\ Len(invalids) = Cardinality(Range(invalids))

\* C11 as stated: a step of a comment, history or attachment handler of bug
\* b writes the record of b alone and nothing that the handlers of two bugs
\* share (the list `invalids` stays as it is), and the data after all
\* handlers does not depend on their order.
C11_HandlersWriteOwnRecordOnly ==
    /\ [][\A kind \in SecondaryKinds, b \in BugIds :
             HandlerStep(kind, b) => (OwnRecordOnly(b) /\ invalids' = invalids)
      ]_vars
    /\ []SecondaryOutcome

\* C11 amended: a handler step of bug b writes the record of b alone; the
\* history handler of a bug without a valid verdict also appends b to the
\* list `invalids`, which the history handlers of all bugs share, and no
\* other handler step changes that list; the data after all handlers, and
\* the set of bugs in `invalids`, do not depend on the order of the handlers.
C11_HandlersWriteOwnRecordAndInvalids ==
    /\ [][\A kind \in SecondaryKinds, b \in BugIds :
             HandlerStep(kind, b) =>
                /\ OwnRecordOnly(b)
                /\ \/ invalids' = invalids
                   \/ kind = "history" /\ invalids' = Append(invalids, b)
      ]_vars
    /\ []SecondaryOutcome

\* C11's case: the handlers of two bugs have all returned, both history
\* handlers appended to `invalids`, the one of bug 2 before the one of bug 1,
\* and the other handlers wrote both records.
C11_Witness ==
    /\ pc = "wait_secondary" /\ pendingSec = {}
    /\ invalids = <<2, 1>>
    /\ \A b \in {1, 2} : b \in DOMAIN data /\ data[b].patches # None
                           /\ DOMAIN data[b].land # {}

\* C12: in a run that uses the treated-ids file, check_bugs has put every
\* bug id of the search into the file before any history is handled or
\* filter_bugs runs; the histories asked for are those of the ids that were
\* not in the file; the file holds the searched ids for the rest of the run,
\* flagged or not; and no step ever takes an id out of the file.
C12_TreatedHoldsAllSearched ==
    [][/\ file # None => (file' # None /\ Get(file) \subseteq Get(file'))
       /\ (rpc = "idle" /\ rpc' = "wait_history" /\ treated' # "") =>
             /\ hdata' = <<>> /\ links' = <<>>
             /\ pendingHist' = DOMAIN rdata' \ (IF file = None THEN {} ELSE Get(file))
       /\ treated' # "" => (file' # None /\ DOMAIN rdata' \subseteq Get(file'))
       /\ \A b \in BugIds :
             (b \in pendingHist /\ b \notin pendingHist' /\ treated # "" /\ runs >= 1) =>
                 b \notin reported
      ]_vars

\* C12's case: a later run with the file, filtered: one bug of its search was
\* in the file already and its history was not fetched again, another was
\* new, fetched and not flagged, and both are in the file.
C12_Witness ==
    /\ rpc = "filtered" /\ treated # "" /\ runs >= 1 /\ file # None
    /\ \E b, b2 \in DOMAIN rdata :
          /\ b \notin DOMAIN hdata /\ b \in Get(file)
          /\ b2 \in DOMAIN hdata /\ ~hdata[b2] /\ b2 \in Get(file)

====
